---- MODULE Spec2Model ----
(***************************************************************************)
(* Model of src/scripts/get_noaa_data.py: NOAADataDownloader.get_daily_data *)
(* (windowing, paging, 429 backoff, best-effort error handling),            *)
(* process_and_save and main.                                               *)
(* Two more scripts are modelled with specifications of their own:          *)
(* src/scripts/verify_data.py (VerifySpec: generate, save and verify the    *)
(* checksums of the data files) and src/scripts/get_usda_data.py (USDASpec: *)
(* download_all_crops).  Each specification keeps the variables of the      *)
(* other scripts at rest.                                                   *)
(*                                                                          *)
(* Dates are day ordinals: datetime.strptime / strftime with '%Y-%m-%d'     *)
(* map a valid date string to a calendar day and back, and timedelta(days)  *)
(* adds whole days, so the loop's date arithmetic is integer arithmetic on  *)
(* the ordinal.  A request carries (startdate, enddate) as two ordinals.    *)
(* Sleeps are in milliseconds.                                              *)
(* The history variable log records one entry per HTTP request issued by    *)
(* get_daily_data, with the response it received and what the handler did.  *)
(***************************************************************************)
EXTENDS Integers, Sequences, FiniteSets, TLC

VARIABLES
    pc,          \* position of the run: main / stations / call / window / datatype / page / return / process / done / raised (idle: not run)
    caller,      \* "main" when get_daily_data is called by main, "direct" otherwise
    token,       \* config.NOAA_API_TOKEN
    start,       \* start_date (day ordinal)
    end,         \* end_date (day ordinal)
    datatypes,   \* the datatypes list
    current,     \* local current
    chunk_end,   \* local chunk_end
    di,          \* index in datatypes of the for loop (0 before the first)
    offset,      \* local offset
    has_more,    \* local has_more
    all_data,    \* local all_data: the list of appended pages
    result,      \* the table returned by get_daily_data (NoResult before the return)
    files,       \* the files written so far
    raised,      \* which function let an exception escape ("none" if none)
    held,        \* the number of records the server holds for the current (window, data type)
    srvCounts,   \* the record counts the simulated server may hold for a pair
    faults,      \* how many more irregular responses (429, errors, missing metadata) the server will give
    calls,       \* history: the request log and the table of each earlier get_daily_data call on the object
    callsLeft,   \* how many more times the caller will call get_daily_data after the current call
    stuck,       \* whether the server has begun to answer 429 to every request, and since which request
    log,         \* history: the requests issued by the current get_daily_data call, oldest first
    stations,    \* history: the outcome of main's get_stations request ("none" before it)
    \* verify_data.py
    vpc,         \* position of the checksum tool: idle / generate / verify_start / verify / exit
    argv,        \* sys.argv[1] of the current run of the tool: "generate" or "verify"
    disk,        \* the content of each data file under base_dir (Absent if it does not exist)
    ckfile,      \* the content of data/checksums.json (NoFile if it does not exist)
    checksums,   \* local checksums['files'] of generate_checksums: entries in insertion order
    stored,      \* local stored_checksums['files'] of verify_checksums
    vi,          \* how many entries of the current for loop have been handled
    all_valid,   \* local all_valid
    verdict,     \* what verify_checksums returned in the current run (NoVerdict before it returns)
    checked,     \* history: the listed paths verify_checksums has examined in the current run
    snapshot,    \* history: the content of the data files when the checksum file was last generated
    runsLeft,    \* how many more times the tool will be run
    edits,       \* how many more changes the environment will make to the data files
    \* get_usda_data.py
    upc,         \* position of download_all_crops: call / crop / done / raised (idle: not called)
    crops,       \* the crops argument ("None" when omitted)
    ci,          \* how many crops of the for loop have been handled
    crop_frames, \* local all_data of download_all_crops: the appended tables
    ulog,        \* history: the get_crop_yields calls, oldest first
    combined,    \* the table returned by download_all_crops (NoResult before the return)
    uraised      \* whether an exception left download_all_crops

\* the variables of each script
noaaVars == <<pc, caller, token, start, end, datatypes, current, chunk_end, di, offset,
              has_more, all_data, result, files, raised, held, srvCounts, faults,
              calls, callsLeft, stuck, log, stations>>
verifyVars == <<vpc, argv, disk, ckfile, checksums, stored, vi, all_valid, verdict,
                checked, snapshot, runsLeft, edits>>
usdaVars == <<upc, crops, ci, crop_frames, ulog, combined, uraised>>
\* what a step of get_noaa_data.py leaves alone
otherScripts == <<verifyVars, usdaVars>>

vars == <<noaaVars, verifyVars, usdaVars>>

----------------------------------------------------------------------------
(* Bounds of the model *)

\* ranges of the wide input family end at most at this day
MaxDay == 364
\* ranges of the wide input family start at most at this day
MaxStart == 1
\* the deep input family holds up to MaxFullPages * limit + 1 records per pair
MaxFullPages == 2
\* irregular responses per run in the deep input family
MaxFaults == 2
\* requests followed once the server answers 429 to every request
MaxRetries == 3
\* get_daily_data is called at most this many times on one downloader object
MaxCalls == 2
\* a data file has one of MaxContent contents when it exists
MaxContent == 2
\* the checksum tool is run at most this many times
MaxRuns == 2
\* the data files are changed at most this many times after a generation
MaxEdits == 2
\* download_all_crops is given at most this many crops
MaxCrops == 3
\* a crop's 'data' holds at most this many records
MaxRecords == 2

(* Program constants *)

\* 'limit': 1000 in the request parameters, and the default of resultset.get('limit', 1000)
Limit == 1000
\* offset = 1
FirstOffset == 1
\* time.sleep(0.2), in milliseconds
PaceMs == 200
\* time.sleep(60), in milliseconds
BackoffMs == 60000
\* chunk_size = timedelta(days=180)
chunk_size == 180
\* resultset.get('offset', 0) and resultset.get('count', 0)
DefaultOffset == 0
DefaultCount == 0

PLACEHOLDER == "YOUR_NOAA_TOKEN_HERE"
OUTPUT_FILE == "noaa_full.csv"
STATIONS_FILE == "noaa_stations.csv"

Min(a, b) == IF a <= b THEN a ELSE b
Max(a, b) == IF a >= b THEN a ELSE b

----------------------------------------------------------------------------
(* Dates: datetime.strptime(s, '%Y-%m-%d') maps a date <<year, month, day>>
   to its proleptic Gregorian ordinal (day 1 is 0001-01-01), and
   strftime('%Y-%m-%d') maps the ordinal back. *)

IsLeap(y) == y % 4 = 0 /\ (y % 100 # 0 \/ y % 400 = 0)

DaysInMonth(y, m) ==
    IF m = 2 THEN (IF IsLeap(y) THEN 29 ELSE 28)
    ELSE IF m \in {4, 6, 9, 11} THEN 30 ELSE 31

DaysBeforeYear(y) ==
    (y - 1) * 365 + ((y - 1) \div 4) - ((y - 1) \div 100) + ((y - 1) \div 400)

RECURSIVE DaysBeforeMonth(_, _)
DaysBeforeMonth(y, m) ==
    IF m = 1 THEN 0 ELSE DaysBeforeMonth(y, m - 1) + DaysInMonth(y, m - 1)

\* datetime.strptime(date, '%Y-%m-%d')
ToOrdinal(date) == DaysBeforeYear(date[1]) + DaysBeforeMonth(date[1], date[2]) + date[3]

\* datetime.strftime('%Y-%m-%d'): the date whose ordinal is n
FromOrdinal(n) ==
    CHOOSE date \in ((n \div 366)..(n \div 365 + 1)) \X (1..12) \X (1..31) :
        /\ date[3] <= DaysInMonth(date[1], date[2])
        /\ ToOrdinal(date) = n

----------------------------------------------------------------------------
(* Pure pieces of get_daily_data *)

\* faulty variant of ChunkEnd: max in place of min
ChunkEndMax(cur, e) == Max(cur + chunk_size, e)

\* chunk_end = min(current + chunk_size, end)
ChunkEnd(cur, e) == Min(cur + chunk_size, e)

\* faulty variant of TokenMissing: only an empty token counts as missing
TokenMissingEmpty(tok) == tok = ""

\* if API_TOKEN == "YOUR_NOAA_TOKEN_HERE": the token was never configured
TokenMissing(tok) == tok = PLACEHOLDER

\* faulty variant of AfterStations: a failure of get_stations is logged and
\* the run goes on without the station list, as a failed page is handled
AfterStationsBestEffort(outcome, fs) ==
    [pc |-> "call", raised |-> "none",
     files |-> IF outcome = "some" THEN fs \cup {STATIONS_FILE} ELSE fs]

\* main after get_stations: an exception is logged and re-raised by
\* get_stations and again by main; otherwise a non-empty station list is
\* written and the fetch is called
AfterStations(outcome, fs) ==
    IF outcome = "fail"
    THEN [pc |-> "raised", raised |-> "get_stations", files |-> fs]
    ELSE [pc |-> "call", raised |-> "none",
          files |-> IF outcome = "some" THEN fs \cup {STATIONS_FILE} ELSE fs]

\* faulty variant of InRange: the loop also runs when current equals end
InRangeInclusive(cur, e) == cur <= e

\* while current < end
InRange(cur, e) == cur < e

\* faulty variant of NextCurrent: the next window starts on the day the
\* previous one ends
NextCurrentShared(ce) == ce

\* current = chunk_end + timedelta(days=1)
NextCurrent(ce) == ce + 1

\* dict.get(key, default)
Get(d, k, default) == IF k \in DOMAIN d THEN d[k] ELSE default

\* the empty dict, which data.get('metadata', {}) and metadata.get('resultset', {})
\* give when the response carries no metadata / resultset
NoMeta == [k \in {} |-> 0]

\* faulty variant of ResultSet: a missing count is taken as unknown, larger
\* than any page
ResultSetCountUnknown(rs) ==
    [offset |-> Get(rs, "offset", DefaultOffset),
     count |-> Get(rs, "count", 2 * Limit),
     limit |-> Get(rs, "limit", Limit)]

\* offset_val = resultset.get('offset', 0); count = resultset.get('count', 0);
\* limit = resultset.get('limit', 1000)
ResultSet(rs) ==
    [offset |-> Get(rs, "offset", DefaultOffset),
     count |-> Get(rs, "count", DefaultCount),
     limit |-> Get(rs, "limit", Limit)]

\* faulty variant of LastPage: the offset is left out of the test
LastPageNoOffset(rs) == rs.limit >= rs.count

\* if offset_val + limit >= count: has_more = False
LastPage(rs) == rs.offset + rs.limit >= rs.count

\* faulty variant of NextOffset: the offset is advanced as a page number
NextOffsetByOne(off) == off + 1

\* offset += 1000
NextOffset(off) == off + 1000

\* The effect of one loop iteration on the locals: whether a page of n rows is
\* appended, the new offset and has_more, the sleep, and whether an exception
\* leaves get_daily_data.

\* faulty variant of OnResults: the end-of-paging test uses the local offset
\* in place of the offset of the response metadata
OnResultsLocalOffset(off, rs) ==
    IF off + ResultSet(rs).limit >= ResultSet(rs).count
    THEN [append |-> TRUE, offset |-> off, has_more |-> FALSE, sleep |-> PaceMs, raise |-> FALSE]
    ELSE [append |-> TRUE, offset |-> off + 1000, has_more |-> TRUE, sleep |-> PaceMs, raise |-> FALSE]

\* faulty variant of OnResults: the append sits in the branch of the last page
OnResultsBuffered(off, rs) ==
    IF ResultSet(rs).offset + ResultSet(rs).limit >= ResultSet(rs).count
    THEN [append |-> TRUE, offset |-> off, has_more |-> FALSE, sleep |-> PaceMs, raise |-> FALSE]
    ELSE [append |-> FALSE, offset |-> off + 1000, has_more |-> TRUE, sleep |-> PaceMs, raise |-> FALSE]

\* 'results' in data: append, read the metadata, stop or advance, then sleep 0.2
OnResults(off, rs) ==
    IF LastPage(ResultSet(rs))
    THEN [append |-> TRUE, offset |-> off, has_more |-> FALSE, sleep |-> PaceMs, raise |-> FALSE]
    ELSE [append |-> TRUE, offset |-> NextOffset(off), has_more |-> TRUE, sleep |-> PaceMs, raise |-> FALSE]

\* faulty variant of OnNoResults: the pacing sleep is taken only after a
\* response that carries results
OnNoResultsNoSleep(off) ==
    [append |-> FALSE, offset |-> off, has_more |-> FALSE, sleep |-> 0, raise |-> FALSE]

\* faulty variant of OnNoResults: a response without 'results' is raised to
\* the caller as an error
OnNoResultsRaise(off) ==
    [append |-> FALSE, offset |-> off, has_more |-> FALSE, sleep |-> 0, raise |-> TRUE]

\* no 'results' key: has_more = False, then sleep 0.2
OnNoResults(off) ==
    [append |-> FALSE, offset |-> off, has_more |-> FALSE, sleep |-> PaceMs, raise |-> FALSE]

\* faulty variant of OnHTTPError: a 429 moves on to the next offset
OnHTTPErrorSkip(off, status) ==
    IF status = 429
    THEN [append |-> FALSE, offset |-> off + 1000, has_more |-> TRUE, sleep |-> BackoffMs, raise |-> FALSE]
    ELSE [append |-> FALSE, offset |-> off, has_more |-> FALSE, sleep |-> 0, raise |-> FALSE]

\* faulty variant of OnHTTPError: other statuses are logged and re-raised, as
\* get_stations does
OnHTTPErrorRaise(off, status) ==
    IF status = 429
    THEN [append |-> FALSE, offset |-> off, has_more |-> TRUE, sleep |-> BackoffMs, raise |-> FALSE]
    ELSE [append |-> FALSE, offset |-> off, has_more |-> FALSE, sleep |-> 0, raise |-> TRUE]

\* faulty variant of OnHTTPError: a 429 ends the paging of the pair like any
\* other status
OnHTTPErrorGiveUp(off, status) ==
    [append |-> FALSE, offset |-> off, has_more |-> FALSE,
     sleep |-> IF status = 429 THEN BackoffMs ELSE 0, raise |-> FALSE]

\* except requests.exceptions.HTTPError: 429 sleeps 60 and loops, others stop the pair
OnHTTPError(off, status) ==
    IF status = 429
    THEN [append |-> FALSE, offset |-> off, has_more |-> TRUE, sleep |-> BackoffMs, raise |-> FALSE]
    ELSE [append |-> FALSE, offset |-> off, has_more |-> FALSE, sleep |-> 0, raise |-> FALSE]

\* faulty variant of OnException: has_more is left True, so the page is retried
OnExceptionRetry(off) ==
    [append |-> FALSE, offset |-> off, has_more |-> TRUE, sleep |-> 0, raise |-> FALSE]

\* faulty variant of OnException: the exception is logged and re-raised, as
\* get_stations does
OnExceptionRaise(off) ==
    [append |-> FALSE, offset |-> off, has_more |-> FALSE, sleep |-> 0, raise |-> TRUE]

\* except Exception: has_more = False
OnException(off) ==
    [append |-> FALSE, offset |-> off, has_more |-> FALSE, sleep |-> 0, raise |-> FALSE]

\* faulty variant of OnMetadataError: the page is appended only once its
\* metadata has been read, so the exception loses it
OnMetadataErrorDiscard(off) == OnException(off)

\* an exception raised while the metadata of a response with results is
\* read (lines 147-153): the page is already appended, then except Exception
OnMetadataError(off) == [OnException(off) EXCEPT !.append = TRUE]

RECURSIVE SumRows(_)
SumRows(pages) ==
    IF pages = <<>> THEN 0 ELSE Head(pages).n + SumRows(Tail(pages))

\* the records of a page: the pair's records first .. first + n - 1
RecordsOf(p) == {<<p.startdate, p.datatype, r>> : r \in p.first..(p.first + p.n - 1)}

\* faulty variant of Combined: the pages are concatenated newest first
CombinedReversed(pages) ==
    [returned |-> TRUE, rows |-> SumRows(pages),
     pages |-> [k \in 1..Len(pages) |-> pages[Len(pages) + 1 - k]]]

\* faulty variant of Combined: duplicate records are dropped
CombinedDedup(pages) ==
    [returned |-> TRUE,
     rows |-> Cardinality(UNION {RecordsOf(pages[k]) : k \in DOMAIN pages}),
     pages |-> pages]

\* faulty variant of FreshAccumulator: the list lives on the object and is
\* never cleared
KeptAccumulator(old) == old

\* all_data = []: a new empty list at every call, whatever an earlier call
\* left behind
FreshAccumulator(old) == <<>>

\* if all_data: pd.concat(all_data, ignore_index=True) else pd.DataFrame():
\* the rows of the pages, in list order
Combined(pages) == [returned |-> TRUE, rows |-> SumRows(pages), pages |-> pages]

\* no table yet: get_daily_data has not returned
NoResult == [returned |-> FALSE, rows |-> 0, pages |-> <<>>]

\* faulty variant of Empty: a test for None, which a DataFrame never is
EmptyIsNone(df) == FALSE

\* DataFrame.empty
Empty(df) == df.rows = 0

\* process_and_save: returns at once on an empty table, else writes output_path
ProcessAndSave(df, fs) == IF Empty(df) THEN fs ELSE fs \cup {OUTPUT_FILE}

----------------------------------------------------------------------------
(* The simulated server *)

\* the rows of the page at 1-based offset off of a pair holding h records
PageRows(h, off) == Min(Limit, Max(0, h - off + 1))

\* the resultset metadata of a well-formed response: the offset and limit of
\* the request, the pair's record count
Meta(h, off) == [offset |-> off, count |-> h, limit |-> Limit]

\* the page size of a server that applies its own default limit
ServerLimit == 25

\* Responses that carry results but depart from the well-formed one:
\* "zero_based" reports the offset counted from 0, "short_limit" applies and
\* reports the server's own limit, "overlap" starts the page one record early.
\* Each is [first, n, rs]: the first record delivered, the number of rows and
\* the resultset metadata.
OddResponse(kind, h, off) ==
    CASE kind = "zero_based" ->
            [first |-> off, n |-> PageRows(h, off),
             rs |-> [offset |-> off - 1, count |-> h, limit |-> Limit]]
      [] kind = "short_limit" ->
            [first |-> off, n |-> Min(ServerLimit, PageRows(h, off)),
             rs |-> [offset |-> off, count |-> h, limit |-> ServerLimit]]
      [] kind = "overlap" ->
            [first |-> off - 1, n |-> PageRows(h, off - 1), rs |-> Meta(h, off)]

\* record counts around the page boundaries: 0, 1, limit-1, limit, limit+1, ...
Counts ==
    {c \in {k * Limit + d : k \in 0..MaxFullPages, d \in {-1, 0, 1}} :
        c >= 0 /\ c <= MaxFullPages * Limit + 1}

TypeLists ==
    {<<>>, <<"TMAX">>, <<"PRCP">>, <<"TMAX", "PRCP">>, <<"PRCP", "TMAX">>}

\* the server answers as usual
NotStuck == [on |-> FALSE, from |-> 0]

----------------------------------------------------------------------------
(* verify_data.py: checksums of the data files *)

\* data_files of generate_checksums, relative to base_dir
data_files ==
    <<"data/raw/noaa_full.csv", "data/raw/usda_yields.csv",
      "data/processed/noaa_clean.csv", "data/processed/usda_clean.csv",
      "data/processed/integrated.csv">>

DataFiles == {data_files[i] : i \in DOMAIN data_files}

\* a file that does not exist; the contents of a file that exists are 1..MaxContent
Absent == 0
Contents == 1..MaxContent

\* filepath.exists()
Exists(content) == content # Absent

\* faulty variant of Sha256: a digest that does not depend on the bytes read
Sha256Blind(content) == <<"sha256", Absent>>

\* compute_sha256: the hex digest of the file's bytes. Equal contents give
\* equal digests, and different contents are taken to give different digests.
Sha256(content) == <<"sha256", content>>

\* json.dump(checksums, f): the text of the checksum file
JsonDump(entries) == <<"json", entries>>

\* json.load(f)['files']: the entries of the text, in their order
JsonLoad(text) == text[2]

\* no checksum file on disk
NoFile == [exists |-> FALSE, text |-> JsonDump(<<>>)]

\* one iteration of generate_checksums: a data file that exists gets an entry
\* checksums['files'][rel_path] with its digest, a missing one is skipped
Generated(entries, rel, content) ==
    IF Exists(content)
    THEN Append(entries, [path |-> rel, sha256 |-> Sha256(content)])
    ELSE entries

\* faulty variant of AllValidAfter: a listed file that is missing is skipped
AllValidAfterSkipMissing(valid, content, storedSum) ==
    IF ~Exists(content) THEN valid
    ELSE IF Sha256(content) = storedSum THEN valid ELSE FALSE

\* one iteration of verify_checksums: all_valid after a listed file whose
\* content on disk is content and whose stored digest is storedSum
AllValidAfter(valid, content, storedSum) ==
    IF ~Exists(content) THEN FALSE
    ELSE IF Sha256(content) = storedSum THEN valid ELSE FALSE

NoVerdict == [returned |-> FALSE, value |-> FALSE]
NoSnapshot == [taken |-> FALSE, disk |-> [f \in DataFiles |-> Absent]]

\* the checksum tool is not run
VerifyIdle ==
    /\ vpc = "idle" /\ argv = "generate"
    /\ disk = [f \in DataFiles |-> Absent] /\ ckfile = NoFile
    /\ checksums = <<>> /\ stored = <<>> /\ vi = 0 /\ all_valid = TRUE
    /\ verdict = NoVerdict /\ checked = <<>> /\ snapshot = NoSnapshot
    /\ runsLeft = 0 /\ edits = 0

----------------------------------------------------------------------------
(* get_usda_data.py: download_all_crops *)

\* if crops is None: crops = ["CORN", "SOYBEANS"]
DefaultCrops == <<"CORN", "SOYBEANS">>
CropNames == {"CORN", "SOYBEANS"}
\* the crops argument left out
NoCrops == [none |-> TRUE, list |-> <<>>]

\* time.sleep(1), in milliseconds
CropPaceMs == 1000

\* get_crop_yields: the table of the 'data' records, an empty table when the
\* response has no 'data' key, and HTTP errors and other exceptions logged
\* and re-raised
GetCropYields(outcome, n) ==
    [raised |-> outcome \in {"ehttp", "exc"},
     rows |-> IF outcome = "data" THEN n ELSE 0]

\* faulty variant of AfterCrop: the exception of get_crop_yields is logged and
\* re-raised, as get_crop_yields itself does
AfterCropPropagate(frames, crop, r) ==
    IF r.raised
    THEN [frames |-> frames, sleep |-> 0, raise |-> TRUE]
    ELSE [frames |-> IF r.rows > 0 THEN Append(frames, [crop |-> crop, rows |-> r.rows])
                     ELSE frames,
          sleep |-> CropPaceMs, raise |-> FALSE]

\* the body of the for loop of download_all_crops after get_crop_yields gave
\* r: a non-empty table is appended and the loop sleeps; an exception is
\* logged and the loop continues with the next crop
AfterCrop(frames, crop, r) ==
    IF r.raised
    THEN [frames |-> frames, sleep |-> 0, raise |-> FALSE]
    ELSE [frames |-> IF r.rows > 0 THEN Append(frames, [crop |-> crop, rows |-> r.rows])
                     ELSE frames,
          sleep |-> CropPaceMs, raise |-> FALSE]

RECURSIVE SumFrames(_)
SumFrames(frames) ==
    IF frames = <<>> THEN 0 ELSE Head(frames).rows + SumFrames(Tail(frames))

\* pd.concat(all_data, ignore_index=True) if all_data else pd.DataFrame()
CombinedCrops(frames) == [returned |-> TRUE, rows |-> SumFrames(frames), frames |-> frames]

\* download_all_crops has not returned
NoCropResult == [returned |-> FALSE, rows |-> 0, frames |-> <<>>]

\* download_all_crops is not called
USDAIdle ==
    /\ upc = "idle" /\ crops = NoCrops /\ ci = 0 /\ crop_frames = <<>>
    /\ ulog = <<>> /\ combined = NoCropResult /\ uraised = FALSE

----------------------------------------------------------------------------
(* Initial states: the inputs of a run *)

Locals ==
    /\ current = 0 /\ chunk_end = 0 /\ di = 0 /\ offset = 0 /\ has_more = FALSE
    /\ all_data = <<>> /\ result = NoResult /\ files = {} /\ raised = "none"
    /\ held = 0 /\ stuck = NotStuck /\ log = <<>> /\ calls = <<>> /\ stations = "none"

\* get_daily_data called directly, any range up to MaxDay, one data type
InitWide ==
    /\ pc = "call" /\ caller = "direct" /\ token = "tok"
    /\ start \in 0..MaxStart /\ end \in 0..MaxDay
    /\ datatypes = <<"TMAX">>
    /\ srvCounts = {Limit + 1}
    /\ faults = 1
    /\ callsLeft = 0
    /\ Locals

\* get_daily_data called directly, one window, any data-type list; any record
\* count for a single data type, an empty and a three-page pair for two
InitDeep ==
    /\ pc = "call" /\ caller = "direct" /\ token = "tok"
    /\ start = 0 /\ end = 1
    /\ datatypes \in TypeLists
    /\ srvCounts = IF Len(datatypes) <= 1 THEN Counts ELSE {0, 2 * Limit + 2}
    /\ faults = MaxFaults
    /\ callsLeft = 0
    /\ Locals

\* a run of main, which passes the configured range and its data types to
\* get_daily_data: here one or two windows and two data types
InitMain ==
    /\ pc = "main" /\ caller = "main" /\ token \in {PLACEHOLDER, "tok"}
    /\ start = 0 /\ end \in {1, chunk_size + 2}
    /\ datatypes = <<"TMAX", "PRCP">>
    /\ srvCounts = {1}
    /\ faults = MaxFaults
    /\ callsLeft = 0
    /\ Locals

\* the end-to-end example: 2020-01-01 to 2020-04-01, one data type, a server
\* holding 2500 records
InitExample ==
    /\ pc = "call" /\ caller = "direct" /\ token = "tok"
    /\ start = ToOrdinal(<<2020, 1, 1>>) /\ end = ToOrdinal(<<2020, 4, 1>>)
    /\ datatypes = <<"TMAX">>
    /\ srvCounts = {2500}
    /\ faults = 1
    /\ callsLeft = 0
    /\ Locals

\* get_daily_data called MaxCalls times on the same object with the same
\* arguments: one window, one data type, one or two pages
InitRepeat ==
    /\ pc = "call" /\ caller = "direct" /\ token = "tok"
    /\ start = 0 /\ end = 1
    /\ datatypes = <<"TMAX">>
    /\ srvCounts = {1, Limit + 2}
    /\ faults = MaxFaults
    /\ callsLeft = MaxCalls - 1
    /\ Locals

Init ==
    /\ InitWide \/ InitDeep \/ InitMain \/ InitExample \/ InitRepeat
    /\ VerifyIdle /\ USDAIdle

----------------------------------------------------------------------------
(* main *)

\* if API_TOKEN == "YOUR_NOAA_TOKEN_HERE": ... return
MainStart ==
    /\ pc = "main"
    /\ pc' = IF TokenMissing(token) THEN "done" ELSE "stations"
    /\ UNCHANGED <<caller, token, start, end, datatypes, current, chunk_end, di, offset,
                   has_more, all_data, result, files, raised, held, srvCounts, faults, stuck, log,
                   calls, callsLeft, stations, otherScripts>>

\* stations = downloader.get_stations(...); a non-empty list is saved.
\* get_stations logs and re-raises any exception, and main re-raises it.
GetStations ==
    /\ pc = "stations"
    /\ \E outcome \in {"some", "empty", "fail"} :
        LET after == AfterStations(outcome, files) IN
        /\ stations' = outcome
        /\ pc' = after.pc
        /\ raised' = after.raised
        /\ files' = after.files
    /\ UNCHANGED <<caller, token, start, end, datatypes, current, chunk_end, di, offset,
                   has_more, all_data, result, held, srvCounts, faults, stuck, log,
                   calls, callsLeft, otherScripts>>

\* if not data.empty: downloader.process_and_save(data, OUTPUT_FILE)
MainSave ==
    /\ pc = "process"
    /\ files' = IF ~Empty(result) THEN ProcessAndSave(result, files) ELSE files
    /\ pc' = "done"
    /\ UNCHANGED <<caller, token, start, end, datatypes, current, chunk_end, di, offset,
                   has_more, all_data, result, raised, held, srvCounts, faults, stuck, log,
                   calls, callsLeft, stations, otherScripts>>

----------------------------------------------------------------------------
(* get_daily_data *)

\* all_data = []; start, end parsed; current = start
Call ==
    /\ pc = "call"
    /\ all_data' = FreshAccumulator(all_data)
    /\ current' = start
    /\ pc' = "window"
    /\ UNCHANGED <<caller, token, start, end, datatypes, chunk_end, di, offset,
                   has_more, result, files, raised, held, srvCounts, faults, stuck, log,
                   calls, callsLeft, stations, otherScripts>>

\* while current < end: chunk_end = min(current + chunk_size, end)
WindowLoop ==
    /\ pc = "window"
    /\ IF InRange(current, end)
       THEN /\ chunk_end' = ChunkEnd(current, end)
            /\ di' = 0
            /\ pc' = "datatype"
       ELSE /\ pc' = "return"
            /\ UNCHANGED <<chunk_end, di>>
    /\ UNCHANGED <<caller, token, start, end, datatypes, current, offset,
                   has_more, all_data, result, files, raised, held, srvCounts, faults, stuck, log,
                   calls, callsLeft, stations, otherScripts>>

\* for datatype in datatypes: offset = 1; has_more = True;
\* after the last one: current = chunk_end + timedelta(days=1)
ForDatatype ==
    /\ pc = "datatype"
    /\ IF di < Len(datatypes)
       THEN /\ di' = di + 1
            /\ offset' = FirstOffset
            /\ has_more' = TRUE
            /\ held' \in srvCounts
            /\ pc' = "page"
            /\ UNCHANGED current
       ELSE /\ current' = NextCurrent(chunk_end)
            /\ pc' = "window"
            /\ UNCHANGED <<di, offset, has_more, held>>
    /\ UNCHANGED <<caller, token, start, end, datatypes, chunk_end,
                   all_data, result, files, raised, srvCounts, faults, stuck, log,
                   calls, callsLeft, stations, otherScripts>>

\* One iteration of while has_more: the request with the current parameters,
\* the response resp (n rows when it carries results), and the handler's effect.
Iteration(resp, first, n, rs, eff, cost) ==
    /\ pc = "page"
    /\ has_more
    /\ faults >= cost
    /\ faults' = faults - cost
    /\ stuck.on => resp = "e429" /\ Len(log) - stuck.from < MaxRetries
    /\ log' = Append(log, [startdate |-> current, enddate |-> chunk_end, di |-> di,
                           datatype |-> datatypes[di], offset |-> offset, limit |-> Limit,
                           held |-> held, resp |-> resp, first |-> first, n |-> n,
                           call |-> Len(calls) + 1,
                           rs |-> ResultSet(rs),
                           more |-> eff.has_more, sleep |-> eff.sleep,
                           raise |-> eff.raise])
    /\ all_data' = IF eff.append
                   THEN Append(all_data, [startdate |-> current, datatype |-> datatypes[di],
                                          offset |-> offset, first |-> first, n |-> n,
                                          call |-> Len(calls) + 1])
                   ELSE all_data
    /\ offset' = eff.offset
    /\ has_more' = eff.has_more
    /\ IF eff.raise
       THEN pc' = "raised" /\ raised' = "get_daily_data"
       ELSE pc' = (IF eff.has_more THEN "page" ELSE "datatype") /\ raised' = raised
    /\ UNCHANGED <<caller, token, start, end, datatypes, current, chunk_end, di,
                   result, files, held, srvCounts, stuck,
                   calls, callsLeft, stations, otherScripts>>

\* 200 with 'results' and the resultset metadata
PageOk ==
    /\ PageRows(held, offset) > 0 \/ held = 0
    /\ Iteration("ok", offset, PageRows(held, offset), Meta(held, offset),
                 OnResults(offset, Meta(held, offset)), 0)

\* 200 with 'results' but without metadata
PageNoMeta ==
    /\ PageRows(held, offset) > 0
    /\ Iteration("nometa", offset, PageRows(held, offset), NoMeta,
                 OnResults(offset, NoMeta), 1)

\* 200 with 'results' and metadata that departs from the well-formed response
PageOddMeta ==
    \E kind \in {"zero_based", "short_limit", "overlap"} :
        LET r == OddResponse(kind, held, offset) IN
        /\ PageRows(held, offset) > 0
        /\ kind = "overlap" => offset > FirstOffset
        /\ Iteration("odd", r.first, r.n, r.rs, OnResults(offset, r.rs), 1)

\* 200 without a 'results' key: the server has nothing at this offset
PageNoResults ==
    /\ PageRows(held, offset) = 0
    /\ Iteration("noresults", offset, 0, NoMeta, OnNoResults(offset), 0)

\* raise_for_status raises HTTPError with status 429
Page429 ==
    Iteration("e429", offset, 0, NoMeta, OnHTTPError(offset, 429), IF stuck.on THEN 0 ELSE 1)

\* from now on the server answers 429 to every request
ServerThrottles ==
    /\ pc = "page" /\ has_more
    /\ ~stuck.on
    /\ faults >= 1
    /\ faults' = faults - 1
    /\ stuck' = [on |-> TRUE, from |-> Len(log)]
    /\ UNCHANGED <<pc, caller, token, start, end, datatypes, current, chunk_end, di, offset,
                   has_more, all_data, result, files, raised, held, srvCounts, log,
                   calls, callsLeft, stations, otherScripts>>

\* raise_for_status raises HTTPError with another status
PageHttpError ==
    \E status \in {404, 503} : Iteration("ehttp", offset, 0, NoMeta, OnHTTPError(offset, status), 1)

\* 200 with 'results' and metadata that cannot be read (null, or values that
\* are not numbers): the page is appended, then the metadata raises
PageBadMeta ==
    /\ PageRows(held, offset) > 0
    /\ Iteration("badmeta", offset, PageRows(held, offset), NoMeta,
                 OnMetadataError(offset), 1)

\* requests.get or response.json() raises another exception
PageException == Iteration("exc", offset, 0, NoMeta, OnException(offset), 1)

\* if all_data: return pd.concat(...) else: return pd.DataFrame()
Return ==
    /\ pc = "return"
    /\ result' = Combined(all_data)
    /\ pc' = IF caller = "main" THEN "process" ELSE "done"
    /\ UNCHANGED <<caller, token, start, end, datatypes, current, chunk_end, di, offset,
                   has_more, all_data, files, raised, held, srvCounts, faults, stuck, log,
                   calls, callsLeft, stations, otherScripts>>

\* the caller, holding the table of the call that has returned, calls
\* get_daily_data again on the same object with the same arguments; the
\* locals of the finished call are whatever it left behind
CallAgain ==
    /\ pc = "done" /\ caller = "direct"
    /\ callsLeft > 0
    /\ callsLeft' = callsLeft - 1
    /\ calls' = Append(calls, [log |-> log, result |-> result])
    /\ log' = <<>>
    /\ result' = NoResult
    /\ pc' = "call"
    /\ UNCHANGED <<caller, token, start, end, datatypes, current, chunk_end, di, offset,
                   has_more, all_data, files, raised, held, srvCounts, faults, stuck, stations, otherScripts>>

Next ==
    \/ MainStart
    \/ GetStations
    \/ MainSave
    \/ Call
    \/ WindowLoop
    \/ ForDatatype
    \/ PageOk
    \/ PageNoMeta
    \/ PageOddMeta
    \/ PageNoResults
    \/ Page429
    \/ PageHttpError
    \/ PageException
    \/ PageBadMeta
    \/ ServerThrottles
    \/ Return
    \/ CallAgain

Spec == Init /\ [][Next]_vars

\* the program is sequential and never pauses for good between two steps
FairSpec == Spec /\ WF_vars(Next)

----------------------------------------------------------------------------
(* verify_data.py: runs of the checksum tool *)

\* get_noaa_data.py is not run
NoaaIdle ==
    /\ pc = "idle" /\ caller = "none" /\ token = PLACEHOLDER
    /\ start = 0 /\ end = 0 /\ datatypes = <<>>
    /\ srvCounts = {0} /\ faults = 0 /\ callsLeft = 0
    /\ Locals

\* the entries generate_checksums writes when every data file exists with
\* content c, in the order of list l
EntriesOf(l, c) == [i \in 1..Len(l) |-> [path |-> l[i], sha256 |-> Sha256(c)]]

Reversed(l) == [i \in 1..Len(l) |-> l[Len(l) + 1 - i]]

VerifyLocals ==
    /\ vpc = "idle" /\ argv = "generate"
    /\ checksums = <<>> /\ stored = <<>> /\ vi = 0 /\ all_valid = TRUE
    /\ verdict = NoVerdict /\ checked = <<>> /\ snapshot = NoSnapshot

\* no checksum file yet; each data file exists or not; the tool is run up to
\* MaxRuns times and the files are changed in between
InitFresh ==
    /\ disk \in [DataFiles -> {Absent, 1}]
    /\ ckfile = NoFile
    /\ runsLeft = MaxRuns /\ edits = MaxEdits
    /\ VerifyLocals

\* a checksum file written elsewhere, listing every data file with the digest
\* of content 1 in either order; the data files are in any state
InitStored ==
    /\ disk \in [DataFiles -> {Absent} \cup Contents]
    /\ ckfile \in {[exists |-> TRUE, text |-> JsonDump(EntriesOf(l, 1))] :
                      l \in {data_files, Reversed(data_files)}}
    /\ runsLeft = 1 /\ edits = 0
    /\ VerifyLocals

VerifyInit == (InitFresh \/ InitStored) /\ NoaaIdle /\ USDAIdle

\* main: if len(sys.argv) > 1 and sys.argv[1] == "verify": verify mode, else
\* generate mode
ToolMain ==
    /\ vpc = "idle" /\ runsLeft > 0
    /\ runsLeft' = runsLeft - 1
    /\ \E mode \in {"generate", "verify"} :
          /\ argv' = mode
          /\ vpc' = IF mode = "verify" THEN "verify_start" ELSE "generate"
    /\ checksums' = <<>> /\ vi' = 0
    /\ verdict' = NoVerdict /\ checked' = <<>>
    /\ UNCHANGED <<disk, ckfile, stored, all_valid, snapshot, edits, noaaVars, usdaVars>>

\* generate_checksums, one iteration of for rel_path in data_files
GenerateStep ==
    /\ vpc = "generate" /\ vi < Len(data_files)
    /\ vi' = vi + 1
    /\ checksums' = Generated(checksums, data_files[vi + 1], disk[data_files[vi + 1]])
    /\ UNCHANGED <<vpc, argv, disk, ckfile, stored, all_valid, verdict, checked, snapshot,
                   runsLeft, edits, noaaVars, usdaVars>>

\* generate_checksums returns; save_checksums(checksums, checksum_file)
SaveChecksums ==
    /\ vpc = "generate" /\ vi = Len(data_files)
    /\ ckfile' = [exists |-> TRUE, text |-> JsonDump(checksums)]
    /\ snapshot' = [taken |-> TRUE, disk |-> disk]
    /\ vpc' = "exit"
    /\ UNCHANGED <<argv, disk, checksums, stored, vi, all_valid, verdict, checked,
                   runsLeft, edits, noaaVars, usdaVars>>

\* verify_checksums: return False without a checksum file, else load it
VerifyStart ==
    /\ vpc = "verify_start"
    /\ IF ~ckfile.exists
       THEN /\ verdict' = [returned |-> TRUE, value |-> FALSE]
            /\ vpc' = "exit"
            /\ UNCHANGED <<stored, all_valid>>
       ELSE /\ stored' = JsonLoad(ckfile.text)
            /\ all_valid' = TRUE
            /\ vpc' = "verify"
            /\ UNCHANGED verdict
    /\ UNCHANGED <<argv, disk, ckfile, checksums, vi, checked, snapshot,
                   runsLeft, edits, noaaVars, usdaVars>>

\* verify_checksums, one iteration of for rel_path, file_info in ...items()
VerifyStep ==
    /\ vpc = "verify" /\ vi < Len(stored)
    /\ vi' = vi + 1
    /\ all_valid' = AllValidAfter(all_valid, disk[stored[vi + 1].path], stored[vi + 1].sha256)
    /\ checked' = Append(checked, stored[vi + 1].path)
    /\ UNCHANGED <<vpc, argv, disk, ckfile, checksums, stored, verdict, snapshot,
                   runsLeft, edits, noaaVars, usdaVars>>

\* return all_valid
VerifyReturn ==
    /\ vpc = "verify" /\ vi = Len(stored)
    /\ verdict' = [returned |-> TRUE, value |-> all_valid]
    /\ vpc' = "exit"
    /\ UNCHANGED <<argv, disk, ckfile, checksums, stored, vi, all_valid, checked, snapshot,
                   runsLeft, edits, noaaVars, usdaVars>>

\* the process ends
ToolExit ==
    /\ vpc = "exit"
    /\ vpc' = "idle"
    /\ UNCHANGED <<argv, disk, ckfile, checksums, stored, vi, all_valid, verdict, checked,
                   snapshot, runsLeft, edits, noaaVars, usdaVars>>

\* between two runs a data file is modified, removed or created (changes
\* before the first generation are among the initial states)
FileChanges ==
    /\ vpc = "idle" /\ ckfile.exists /\ edits > 0 /\ runsLeft > 0
    /\ edits' = edits - 1
    /\ \E f \in DataFiles : \E c \in ({Absent} \cup Contents) \ {disk[f]} :
          disk' = [disk EXCEPT ![f] = c]
    /\ UNCHANGED <<vpc, argv, ckfile, checksums, stored, vi, all_valid, verdict, checked,
                   snapshot, runsLeft, noaaVars, usdaVars>>

VerifyNext ==
    \/ ToolMain
    \/ GenerateStep
    \/ SaveChecksums
    \/ VerifyStart
    \/ VerifyStep
    \/ VerifyReturn
    \/ ToolExit
    \/ FileChanges

VerifySpec == VerifyInit /\ [][VerifyNext]_vars

----------------------------------------------------------------------------
(* get_usda_data.py: a call of download_all_crops *)

\* the lists of at most n crop names
RECURSIVE CropLists(_)
CropLists(n) ==
    IF n = 0 THEN {<<>>}
    ELSE CropLists(n - 1) \cup
         {Append(l, c) : l \in {k \in CropLists(n - 1) : Len(k) = n - 1}, c \in CropNames}

\* download_all_crops called with any list of up to MaxCrops crops, or none
USDAInit ==
    /\ upc = "call"
    /\ crops \in {NoCrops} \cup {[none |-> FALSE, list |-> l] : l \in CropLists(MaxCrops)}
    /\ ci = 0 /\ crop_frames = <<>> /\ ulog = <<>>
    /\ combined = NoCropResult /\ uraised = FALSE
    /\ NoaaIdle /\ VerifyIdle

\* if crops is None: crops = ["CORN", "SOYBEANS"]; all_data = []
CropsCall ==
    /\ upc = "call"
    /\ crops' = IF crops.none THEN [none |-> FALSE, list |-> DefaultCrops] ELSE crops
    /\ crop_frames' = <<>>
    /\ upc' = "crop"
    /\ UNCHANGED <<ci, ulog, combined, uraised, noaaVars, verifyVars>>

\* one iteration of for crop in crops: get_crop_yields answers with records,
\* with an empty 'data', without 'data', or raises
CropStep ==
    /\ upc = "crop" /\ ci < Len(crops.list)
    /\ \E outcome \in {"data", "nodata", "ehttp", "exc"} :
       \E n \in 0..MaxRecords :
          LET crop == crops.list[ci + 1]
              r == GetCropYields(outcome, n)
              after == AfterCrop(crop_frames, crop, r)
          IN  /\ outcome # "data" => n = 0
              /\ ulog' = Append(ulog, [crop |-> crop, pos |-> ci + 1, outcome |-> outcome,
                                       rows |-> r.rows, raised |-> r.raised,
                                       sleep |-> after.sleep])
              /\ crop_frames' = after.frames
              /\ uraised' = after.raise
              /\ upc' = IF after.raise THEN "raised" ELSE "crop"
    /\ ci' = ci + 1
    /\ UNCHANGED <<crops, combined, noaaVars, verifyVars>>

\* if all_data: return pd.concat(...) else: return pd.DataFrame()
CropsReturn ==
    /\ upc = "crop" /\ ci = Len(crops.list)
    /\ combined' = CombinedCrops(crop_frames)
    /\ upc' = "done"
    /\ UNCHANGED <<crops, ci, crop_frames, ulog, uraised, noaaVars, verifyVars>>

USDANext ==
    \/ CropsCall
    \/ CropStep
    \/ CropsReturn

USDASpec == USDAInit /\ [][USDANext]_vars

----------------------------------------------------------------------------
(* Reading the history *)

\* an iteration that ended in except HTTPError (not 429) or except Exception
IsError(r) == r.resp \in {"ehttp", "exc", "badmeta"}
Is429(r) == r.resp = "e429"
\* a response that carries results and the resultset metadata, or the empty
\* response of a server that has nothing at the offset
WellFormed(r) == r.resp \in {"ok", "noresults"}

SamePair(r, q) == r.startdate = q.startdate /\ r.di = q.di
SamePage(r, q) == SamePair(r, q) /\ r.offset = q.offset

\* the requests of the (window, data-type) pair of entry r, oldest first
PairEntries(r) == SelectSeq(log, LAMBDA q : SamePair(q, r))
\* the requests of the page of entry r
PageEntries(r) == SelectSeq(log, LAMBDA q : SamePage(q, r))

Last(s) == s[Len(s)]

\* the pair of entry r was paged to its end without an error or an irregular
\* response
PairCleanlyDone(r) ==
    LET es == PairEntries(r) IN
    /\ \A i \in DOMAIN es : WellFormed(es[i])
    /\ ~Last(es).more

\* the rows appended to all_data for the pair of entry r
RowsOfPair(r) ==
    SumRows(SelectSeq(all_data,
        LAMBDA p : p.startdate = r.startdate /\ p.datatype = r.datatype))

Ceil(a, b) == (a + b - 1) \div b

\* the (startdate, enddate) windows of the requests, in request order
RECURSIVE WindowsOf(_)
WindowsOf(l) ==
    IF l = <<>> THEN <<>>
    ELSE LET w == <<Last(l).startdate, Last(l).enddate>>
             prev == WindowsOf(SubSeq(l, 1, Len(l) - 1))
         IN IF prev # <<>> /\ Last(prev) = w THEN prev ELSE Append(prev, w)

\* every day of [start, end) lies in a window requested for every data type
EveryDayRequested ==
    \A d \in start..(end - 1) : \A t \in 1..Len(datatypes) :
        \E i \in DOMAIN log :
            log[i].startdate <= d /\ d <= log[i].enddate /\ log[i].di = t

----------------------------------------------------------------------------
(* Claims *)

\* C1: when no request fails, the returned table holds every record the
\* server holds for every requested data type and every date of the range:
\* for every pair the rows in the table equal the server's count, and every
\* day of the range is requested for every data type.
C1_AllRecordsReturned ==
    (result.returned /\ \A i \in DOMAIN log : WellFormed(log[i])) =>
        /\ \A i \in DOMAIN log : RowsOfPair(log[i]) = log[i].held
        /\ EveryDayRequested

\* C2: a pair holding count records, served in pages of limit without errors,
\* is paged with exactly ceil(count / limit) requests.
C2_RequestsAreCeil ==
    \A i \in DOMAIN log :
        PairCleanlyDone(log[i]) =>
            Len(PairEntries(log[i])) = Ceil(log[i].held, Limit)

\* C3: a pair holding count records, served without errors, has exactly count
\* records appended to the accumulator.
C3_AppendedIsCount ==
    \A i \in DOMAIN log :
        PairCleanlyDone(log[i]) => RowsOfPair(log[i]) = log[i].held

\* C4 as stated: each window starts where the previous one ends, the first
\* starts at start, none leaves the range, and once the call has returned
\* every day of [start, end) lies in a requested window.
C4_SharedBoundaries ==
    LET W == WindowsOf(log) IN
    /\ \A i \in DOMAIN W : start <= W[i][1] /\ W[i][1] < W[i][2] /\ W[i][2] <= end
    /\ W # <<>> => W[1][1] = start
    /\ \A i \in 1..(Len(W) - 1) : W[i + 1][1] = W[i][2]
    /\ (result.returned /\ datatypes # <<>> /\ start < end) =>
            \A d \in start..(end - 1) :
                \E i \in DOMAIN W : W[i][1] <= d /\ d <= W[i][2]

\* C4 (amended): the requested windows are inclusive day ranges startdate..enddate
\* inside [start, end]; the first starts at start and each later one starts the
\* day after the previous one ends; once the call has returned (non-empty
\* data-type list, start < end) every day of [start, end) lies in exactly one
\* window, and the day end itself is requested unless end - start is a
\* multiple of chunk_size + 1.
C4_WindowsPartitionRange ==
    LET W == WindowsOf(log) IN
    /\ \A i \in DOMAIN W : start <= W[i][1] /\ W[i][1] < W[i][2] /\ W[i][2] <= end
    /\ W # <<>> => W[1][1] = start
    /\ \A i \in 1..(Len(W) - 1) : W[i + 1][1] = W[i][2] + 1
    /\ (result.returned /\ datatypes # <<>> /\ start < end) =>
            /\ W # <<>>
            /\ \A d \in start..(end - 1) :
                   Cardinality({i \in DOMAIN W : W[i][1] <= d /\ d <= W[i][2]}) = 1
            /\ Last(W)[2] = (IF (end - start) % (chunk_size + 1) = 0 THEN end - 1 ELSE end)

\* C4 witness: a returned call that requested three windows
C4_Witness ==
    /\ result.returned
    /\ Len(WindowsOf(log)) = 3

\* C5: every requested window spans at most chunk_size = 180 days
\* (enddate - startdate <= 180).
C5_WindowSpan ==
    \A i \in DOMAIN log : log[i].enddate - log[i].startdate <= chunk_size

\* C5 witness: a window of exactly 180 days followed by a request for a later
\* window
C5_Witness ==
    \E i, j \in DOMAIN log :
        /\ i < j
        /\ log[i].enddate - log[i].startdate = chunk_size
        /\ log[j].startdate > log[i].enddate

\* the request that get_daily_data issues next repeats entry r
NextRequestRepeats(r) ==
    /\ pc = "page" /\ has_more
    /\ current = r.startdate /\ chunk_end = r.enddate /\ di = r.di /\ offset = r.offset

\* C6: after a 429 the call sleeps 60 seconds and the next request has the
\* same window, data type and offset; a page that has been answered was
\* requested once plus once per 429 it received.
C6_RetrySamePage ==
    /\ \A i \in DOMAIN log : Is429(log[i]) =>
          /\ log[i].sleep = BackoffMs
          /\ IF i < Len(log)
             THEN /\ SamePage(log[i + 1], log[i])
                  /\ log[i + 1].enddate = log[i].enddate
                  /\ log[i + 1].datatype = log[i].datatype
             ELSE NextRequestRepeats(log[i])
    /\ \A i \in DOMAIN log :
          LET es == PageEntries(log[i])
              n429 == Len(SelectSeq(es, Is429))
          IN  /\ Len(es) = n429 + (IF Is429(Last(es)) THEN 0 ELSE 1)
              /\ result.returned => Len(es) = 1 + n429

\* C6 witness: a returned call in which one page got two 429 responses and was
\* then delivered
C6_Witness ==
    /\ result.returned
    /\ \E i \in DOMAIN log :
          /\ log[i].resp = "ok"
          /\ Len(SelectSeq(PageEntries(log[i]), Is429)) = 2

\* C7: after a request fails with a non-429 HTTP error or another exception, no
\* further request is issued for the same (window, data type) pair.
C7_NoRequestAfterError ==
    \A i, j \in DOMAIN log :
        (i < j /\ IsError(log[i])) => ~SamePair(log[j], log[i])

\* C7 witness: a pair holding more than two pages failed on its second page,
\* and a later pair was requested
C7_Witness ==
    \E i, j \in DOMAIN log :
        /\ i < j
        /\ IsError(log[i])
        /\ log[i].offset = FirstOffset + Limit
        /\ log[i].held > 2 * Limit
        /\ ~SamePair(log[j], log[i])

\* C8: when the call ends, every data type of every window has received at
\* least one request, whatever non-429 failures occurred: every day of the
\* range was requested for every data type.
C8_LaterPairsAttempted ==
    (result.returned \/ raised = "get_daily_data") => EveryDayRequested

\* C8 witness: a returned call over two windows and two data types whose
\* first pair failed with a non-429 error
C8_Witness ==
    /\ result.returned
    /\ Len(datatypes) = 2
    /\ Len(WindowsOf(log)) = 2
    /\ log # <<>> /\ IsError(log[1])

\* C9: no error of a page request leaves get_daily_data: the call never
\* raises, and a run that got past the call holds the returned table.
C9_NeverRaises ==
    /\ raised # "get_daily_data"
    /\ \A i \in DOMAIN log : ~log[i].raise
    /\ (pc \in {"process", "done"} /\ token # PLACEHOLDER) => result.returned

\* C9 witness: a returned call that met an HTTP error and another exception
C9_Witness ==
    /\ result.returned
    /\ \E i \in DOMAIN log : log[i].resp = "ehttp"
    /\ \E i \in DOMAIN log : log[i].resp = "exc"

\* every (window, data type) pair that was requested ended with a failure
EveryGroupFailed ==
    /\ log # <<>>
    /\ \A i \in DOMAIN log : IsError(Last(PairEntries(log[i])))

\* no request delivered a page
NoPageReceived == \A i \in DOMAIN log : log[i].resp \notin {"ok", "nometa", "odd", "badmeta"}

\* C10 as stated: when every page-group fails the returned table is empty and
\* the run of main writes no file at all.
C10_NoFileAtAll ==
    (caller = "main" /\ pc = "done" /\ result.returned /\ EveryGroupFailed) =>
        result.rows = 0 /\ files = {}

\* C10 (amended): when every page-group fails without delivering a page the
\* returned table is empty; and when the returned table is empty the run of
\* main does not write the data file noaa_full.csv (the only file it may have
\* written is the station list noaa_stations.csv).
C10_NoDataFile ==
    /\ (result.returned /\ NoPageReceived) => result.rows = 0
    /\ (caller = "main" /\ pc = "done" /\ result.returned /\ result.rows = 0) =>
            files \subseteq {STATIONS_FILE}

\* C10 witness: a finished run of main in which every page-group failed
\* without delivering a page, and the station list was written
C10_Witness ==
    /\ caller = "main" /\ pc = "done" /\ result.returned
    /\ EveryGroupFailed /\ NoPageReceived
    /\ files = {STATIONS_FILE}

\* a response that delivered a page of results
Delivered(r) == r.resp \in {"ok", "nometa", "odd", "badmeta"}

\* a delivered page whose resultset metadata was read
MetadataRead(r) == r.resp \in {"ok", "nometa", "odd"}

\* the page that entry r appended to the accumulator
PageOf(r) ==
    [startdate |-> r.startdate, datatype |-> r.datatype, offset |-> r.offset,
     first |-> r.first, n |-> r.n, call |-> r.call]

\* the pages delivered by the requests of l, in request order
DeliveredPages(l) ==
    LET d == SelectSeq(l, Delivered) IN [k \in 1..Len(d) |-> PageOf(d[k])]

\* the position of data type t in the datatypes list
IndexOf(t) == CHOOSE k \in 1..Len(datatypes) : datatypes[k] = t

\* page p comes before page q: earlier window, or same window and earlier
\* data type of the list, or same pair and lower offset
PageBefore(p, q) ==
    \/ p.startdate < q.startdate
    \/ p.startdate = q.startdate /\ IndexOf(p.datatype) < IndexOf(q.datatype)
    \/ p.startdate = q.startdate /\ p.datatype = q.datatype /\ p.offset < q.offset

\* C11: the returned table holds the pages in fetch order: windows ascending,
\* within a window the data types in list order, within a pair the offsets
\* ascending, which is the order in which the pages were received.
C11_FetchOrder ==
    result.returned =>
        /\ result.pages = DeliveredPages(log)
        /\ \A i, j \in DOMAIN result.pages :
               i < j => PageBefore(result.pages[i], result.pages[j])

\* C11 witness: a returned table for the list (PRCP, TMAX) with three pages of
\* PRCP followed by pages of TMAX
C11_Witness ==
    /\ result.returned
    /\ datatypes = <<"PRCP", "TMAX">>
    /\ Len(result.pages) >= 4
    /\ result.pages[3].datatype = "PRCP" /\ result.pages[3].offset = FirstOffset + 2 * Limit
    /\ result.pages[4].datatype = "TMAX"

\* C14: between any two consecutive requests the call sleeps at least once:
\* every request but the last is followed by a sleep.
C14_SleepBetweenRequests ==
    \A i \in 1..(Len(log) - 1) : log[i].sleep > 0

\* C15: a delivered page is in the accumulator from the moment it is received,
\* and the pages a pair delivered before it failed are in the returned table.
C15_PagesKeptAfterError ==
    /\ \A i \in DOMAIN log : Delivered(log[i]) =>
           \E k \in DOMAIN all_data : all_data[k] = PageOf(log[i])
    /\ result.returned =>
           \A i, j \in DOMAIN log :
               (i < j /\ SamePair(log[i], log[j]) /\ Delivered(log[i]) /\ IsError(log[j])) =>
                   \E k \in DOMAIN result.pages : result.pages[k] = PageOf(log[i])

\* C15 witness: a returned call in which a pair delivered its first page and
\* failed on its second
C15_Witness ==
    /\ result.returned
    /\ result.rows >= Limit
    /\ \E i \in 1..(Len(log) - 1) :
          /\ Delivered(log[i]) /\ log[i].offset = FirstOffset
          /\ SamePair(log[i], log[i + 1]) /\ IsError(log[i + 1])

\* C17: every request carries limit = 1000; the first request of a pair has
\* offset 1 and each later one repeats the offset after a 429 and adds 1000
\* otherwise, whatever limit the server reports.
C17_OffsetsByThousand ==
    \A i \in DOMAIN log :
        /\ log[i].limit = 1000
        /\ IF i > 1 /\ SamePair(log[i - 1], log[i])
           THEN log[i].offset =
                    (IF Is429(log[i - 1]) THEN log[i - 1].offset ELSE log[i - 1].offset + 1000)
           ELSE log[i].offset = 1

\* C17 witness: a page whose metadata reports the server's own limit, followed
\* by the request of the next page of the pair
C17_Witness ==
    \E i \in 1..(Len(log) - 1) :
        /\ Delivered(log[i]) /\ log[i].rs.limit = ServerLimit
        /\ SamePair(log[i], log[i + 1])
        /\ log[i + 1].offset = log[i].offset + 1000

\* the request that get_daily_data issues next is the page after entry r
NextRequestFollows(r) ==
    /\ pc = "page" /\ has_more
    /\ current = r.startdate /\ di = r.di /\ offset = r.offset + 1000

\* C18: after a page of results, paging of the pair stops exactly when
\* offset + limit >= count with the three values of the response metadata;
\* otherwise the next request is the next page of the pair.
C18_StopOnMetadata ==
    \A i \in DOMAIN log : MetadataRead(log[i]) =>
        IF log[i].rs.offset + log[i].rs.limit >= log[i].rs.count
        THEN /\ ~log[i].more
             /\ \A j \in DOMAIN log : j > i => ~SamePair(log[j], log[i])
        ELSE /\ log[i].more
             /\ IF i < Len(log)
                THEN SamePair(log[i + 1], log[i]) /\ log[i + 1].offset = log[i].offset + 1000
                ELSE NextRequestFollows(log[i])

\* C18 witness: a page whose metadata offset is below the requested offset,
\* where the metadata says more and the local offset would say stop, followed
\* by the request of the next page
C18_Witness ==
    \E i \in 1..(Len(log) - 1) :
        /\ Delivered(log[i])
        /\ log[i].rs.offset + log[i].rs.limit < log[i].rs.count
        /\ log[i].offset + log[i].rs.limit >= log[i].rs.count
        /\ SamePair(log[i + 1], log[i])

\* C19: the returned table has as many rows as the received pages together,
\* and holds every received page: a record delivered in two pages is there twice.
C19_NoDeduplication ==
    result.returned =>
        /\ result.rows = SumRows(DeliveredPages(log))
        /\ Len(result.pages) = Len(SelectSeq(log, Delivered))

\* C19 witness: a returned table with two pages that share a record
C19_Witness ==
    /\ result.returned
    /\ \E i, j \in DOMAIN result.pages :
          /\ i < j
          /\ RecordsOf(result.pages[i]) \cap RecordsOf(result.pages[j]) # {}

\* C16: for 2020-01-01 to 2020-04-01, one data type and a server holding 2500
\* records that answers without errors, the call uses the single window
\* 2020-01-01 to 2020-04-01, issues exactly the three requests at offsets 1,
\* 1001 and 2001, and returns 2500 records.
C16_Example ==
    (/\ start = ToOrdinal(<<2020, 1, 1>>) /\ end = ToOrdinal(<<2020, 4, 1>>)
     /\ Len(datatypes) = 1
     /\ result.returned
     /\ \A i \in DOMAIN log : WellFormed(log[i]) /\ log[i].held = 2500) =>
        /\ Len(log) = 3
        /\ \A i \in DOMAIN log :
              /\ FromOrdinal(log[i].startdate) = <<2020, 1, 1>>
              /\ FromOrdinal(log[i].enddate) = <<2020, 4, 1>>
              /\ log[i].enddate - log[i].startdate = 91
              /\ log[i].offset = 1 + (i - 1) * 1000
              /\ log[i].limit = 1000
        /\ result.rows = 2500

\* C16 witness: the example has returned after three well-formed responses
C16_Witness ==
    /\ start = ToOrdinal(<<2020, 1, 1>>) /\ end = ToOrdinal(<<2020, 4, 1>>)
    /\ result.returned
    /\ Len(log) = 3
    /\ \A i \in DOMAIN log : log[i].resp = "ok" /\ log[i].held = 2500

\* C12: with finitely many 429 responses, a call that has started eventually
\* returns: every run reaches the return unless the server has begun to
\* answer 429 to every request.
C12_EventuallyReturns ==
    (pc = "call") ~> (result.returned \/ stuck.on)

\* C12 witness: a call over three windows that has returned after a 429
C12_Witness ==
    /\ result.returned
    /\ Len(WindowsOf(log)) = 3
    /\ \E i \in DOMAIN log : Is429(log[i])

\* C13: once the server answers 429 to every request, the call repeats the
\* same request after each 60-second sleep and does nothing else: it stays in
\* the paging loop of the same window, data type and offset, appends nothing
\* and does not return.
C13_RetriesForever ==
    stuck.on =>
        /\ pc = "page" /\ has_more
        /\ ~result.returned /\ raised = "none"
        /\ \A i \in (stuck.from + 1)..Len(log) :
              /\ Is429(log[i]) /\ log[i].sleep = BackoffMs
              /\ SamePage(log[i], log[stuck.from + 1])
        /\ Len(log) > stuck.from => NextRequestRepeats(Last(log))
        /\ Len(all_data) = Len(SelectSeq(SubSeq(log, 1, stuck.from), Delivered))

\* C13 witness: the same page of a second window has been requested
\* MaxRetries times in a row, each time answered 429
C13_Witness ==
    /\ stuck.on
    /\ Len(log) - stuck.from = MaxRetries
    /\ Last(log).startdate > start

\* the responses the server gave to the requests of l, in order
Responses(l) ==
    [i \in 1..Len(l) |-> [resp |-> l[i].resp, first |-> l[i].first, n |-> l[i].n, rs |-> l[i].rs]]

\* the content of a table: its pages without the mark of the call that
\* fetched them
Table(df) ==
    [rows |-> df.rows,
     pages |-> [k \in 1..Len(df.pages) |->
                   [startdate |-> df.pages[k].startdate, datatype |-> df.pages[k].datatype,
                    offset |-> df.pages[k].offset, first |-> df.pages[k].first,
                    n |-> df.pages[k].n]]]

\* C20: the accumulator has no state across calls: the table a call returns
\* holds only pages fetched during that call, and a call that received the
\* same responses as an earlier call with the same arguments returns the same
\* table.
C20_NoStateAcrossCalls ==
    /\ pc \in {"window", "datatype", "page", "return"} =>
          \A k \in DOMAIN all_data : all_data[k].call = Len(calls) + 1
    /\ result.returned =>
          /\ \A k \in DOMAIN result.pages : result.pages[k].call = Len(calls) + 1
          /\ result.rows = SumRows(DeliveredPages(log))
          /\ \A c \in DOMAIN calls :
                Responses(calls[c].log) = Responses(log) =>
                    Table(result) = Table(calls[c].result)

\* C20 witness: a second call has returned a two-page table after the same
\* responses as the first call, which returned too
C20_Witness ==
    /\ Len(calls) = 1 /\ calls[1].result.returned
    /\ result.returned /\ Len(result.pages) = 2
    /\ Responses(calls[1].log) = Responses(log)

\* a request whose iteration ended in an except branch: HTTP 429, another
\* HTTP error or another exception
Failed(r) == r.resp \in {"e429", "ehttp", "exc", "badmeta"}

\* C23 as stated: a failed page request leaves the accumulator unchanged: the
\* step that issues a request whose iteration ends in an except branch keeps
\* all_data as it was.
C23_FailureKeepsAccumulator ==
    [][(Len(log') = Len(log) + 1 /\ Failed(Last(log'))) => all_data' = all_data]_vars

\* C23 (amended): a failed iteration removes and reorders nothing: all_data is
\* unchanged when the failure comes before the append (429, another HTTP
\* error, an exception of the request or of the decoding), and is extended at
\* its end by the page just received when the exception comes while the
\* metadata is read.
C23_FailureKeepsEarlierPages ==
    [][(Len(log') = Len(log) + 1 /\ Failed(Last(log'))) =>
          IF Last(log').resp = "badmeta"
          THEN all_data' = Append(all_data, PageOf(Last(log')))
          ELSE all_data' = all_data]_vars

\* C23 witness: after two appended pages a third was appended by an iteration
\* that then failed on the metadata
C23_Witness ==
    /\ log # <<>> /\ Last(log).resp = "badmeta"
    /\ Len(all_data) = 3

\* C24: a response with results but without resultset metadata is read with
\* the defaults offset 0, count 0, limit 1000: its page is appended and it is
\* the last request of its pair, whatever the server holds.
C24_NoMetadataStopsPaging ==
    \A i \in DOMAIN log :
        log[i].resp = "nometa" =>
            /\ log[i].rs = [offset |-> 0, count |-> 0, limit |-> 1000]
            /\ ~log[i].more
            /\ \A j \in (i + 1)..Len(log) : ~SamePair(log[j], log[i])
            /\ \E k \in DOMAIN all_data : all_data[k] = PageOf(log[i])

\* C24 witness: the first page of a pair holding more than two pages came
\* without metadata, and the call has returned
C24_Witness ==
    /\ result.returned
    /\ \E i \in DOMAIN log :
          log[i].resp = "nometa" /\ log[i].offset = FirstOffset /\ log[i].held > 2 * Limit

\* C25: a successful response without 'results' ends the paging of its pair,
\* appends nothing, raises nothing, and is followed by the 0.2-second sleep;
\* the next request, if any, is the first of another pair.
C25_NoResultsEndsPair ==
    /\ raised # "get_daily_data"
    /\ \A i \in DOMAIN log :
        log[i].resp = "noresults" =>
            /\ ~log[i].more /\ ~log[i].raise
            /\ log[i].sleep = PaceMs
            /\ \A k \in DOMAIN all_data :
                  ~(/\ all_data[k].startdate = log[i].startdate
                    /\ all_data[k].datatype = log[i].datatype
                    /\ all_data[k].offset = log[i].offset)
            /\ i < Len(log) =>
                  ~SamePair(log[i + 1], log[i]) /\ log[i + 1].offset = FirstOffset

\* C25 witness: a response without 'results' is followed by the first
\* request of the next pair
C25_Witness ==
    \E i \in DOMAIN log :
        /\ log[i].resp = "noresults" /\ i < Len(log)
        /\ log[i + 1].di = log[i].di + 1

\* C26: with start_date >= end_date get_daily_data issues no request and
\* returns an empty table.
C26_EmptyRangeNoRequest ==
    start >= end =>
        /\ log = <<>> /\ all_data = <<>>
        /\ raised # "get_daily_data"
        /\ result.returned => Empty(result)

\* C26 witness: the call has returned for a range with start_date = end_date
C26_Witness ==
    /\ start = end /\ start > 0
    /\ result.returned /\ pc = "done"

\* C27: in main a failure of get_stations is re-raised: the run ends there,
\* with no daily-data request issued and no file written.
C27_StationsFailureAborts ==
    stations = "fail" =>
        /\ pc = "raised" /\ raised = "get_stations"
        /\ log = <<>> /\ ~result.returned
        /\ files = {}

\* C27 witness: get_stations has failed in a run of main
C27_Witness ==
    /\ caller = "main" /\ stations = "fail"
    /\ pc = "raised"

\* C28: with the placeholder token main returns without any HTTP request
\* (neither the station list nor a page) and without writing a file.
C28_PlaceholderTokenReturns ==
    (caller = "main" /\ token = PLACEHOLDER) =>
        /\ pc \in {"main", "done"}
        /\ stations = "none" /\ log = <<>>
        /\ files = {} /\ raised = "none" /\ ~result.returned

\* C28 witness: main has returned with the placeholder token
C28_Witness ==
    /\ caller = "main" /\ token = PLACEHOLDER
    /\ pc = "done"

\* the entries of the checksum file on disk
Listed == JsonLoad(ckfile.text)

\* C21: verify_checksums returns True exactly when the checksum file exists
\* and every listed file exists with the stored digest; and it examines every
\* listed file, also after one was found missing or modified.
C21_VerifyVerdict ==
    (vpc = "exit" /\ argv = "verify") =>
        /\ verdict.returned
        /\ verdict.value <=>
              /\ ckfile.exists
              /\ \A i \in DOMAIN Listed :
                    /\ Exists(disk[Listed[i].path])
                    /\ Sha256(disk[Listed[i].path]) = Listed[i].sha256
        /\ ckfile.exists => checked = [i \in DOMAIN Listed |-> Listed[i].path]

\* C21 witness: a verification that found the first listed file missing, went
\* on through all five, found the last one modified and returned False
C21_Witness ==
    /\ vpc = "exit" /\ argv = "verify" /\ ckfile.exists
    /\ ~verdict.value
    /\ Len(checked) = 5
    /\ ~Exists(disk[checked[1]])
    /\ Exists(disk[checked[5]]) /\ Sha256(disk[checked[5]]) # Listed[5].sha256

\* the data files that existed at the last generation
Recorded == {f \in DataFiles : Exists(snapshot.disk[f])}

\* C22: after generate_checksums and save_checksums, verify_checksums returns
\* True exactly when every file that existed at generation is still there with
\* the same content; files that did not exist then are not listed and do not
\* count, whether they exist now or not.
C22_RoundTrip ==
    /\ snapshot.taken =>
          {Listed[i].path : i \in DOMAIN Listed} = Recorded
    /\ (vpc = "exit" /\ argv = "verify" /\ snapshot.taken) =>
          /\ verdict.returned
          /\ verdict.value <=> \A f \in Recorded : disk[f] = snapshot.disk[f]

\* C22 witness: a verification returned True although a file that was absent
\* at generation has been created since, and another is still absent
C22_Witness ==
    /\ vpc = "exit" /\ argv = "verify" /\ snapshot.taken
    /\ verdict.value
    /\ Recorded # {}
    /\ \E f, g \in DataFiles \ Recorded : Exists(disk[f]) /\ ~Exists(disk[g])

\* the get_crop_yields calls that gave a non-empty table
Succeeded(r) == ~r.raised /\ r.rows > 0

\* the tables of the calls of l that gave a non-empty one, in call order
FramesOf(l) ==
    LET ok == SelectSeq(l, Succeeded)
    IN  [k \in 1..Len(ok) |-> [crop |-> ok[k].crop, rows |-> ok[k].rows]]

\* C29: download_all_crops isolates failures per crop: no exception of
\* get_crop_yields leaves it, the crops are requested once each in list order
\* whatever failed before, and the returned table holds the tables of exactly
\* the crops that gave a non-empty one, in list order (empty when none did).
C29_FailuresIsolated ==
    /\ ~uraised /\ upc # "raised"
    /\ upc \in {"crop", "done"} =>
          /\ Len(ulog) = ci
          /\ \A i \in DOMAIN ulog : ulog[i].pos = i /\ ulog[i].crop = crops.list[i]
          /\ crop_frames = FramesOf(ulog)
    /\ combined.returned =>
          /\ Len(ulog) = Len(crops.list)
          /\ combined.frames = FramesOf(ulog)
          /\ combined.rows = SumFrames(FramesOf(ulog))
          /\ (\A i \in DOMAIN ulog : ~Succeeded(ulog[i])) => combined.rows = 0

\* C29 witness: the first of three crops failed, the second gave records, the
\* third gave none, and the call returned the second crop's records
C29_Witness ==
    /\ combined.returned /\ Len(ulog) = 3
    /\ ulog[1].raised /\ Succeeded(ulog[2]) /\ ulog[3].outcome = "nodata"
    /\ Len(combined.frames) = 1 /\ combined.frames[1].crop = crops.list[2]

====
